---- MODULE Spec2Model ----
(***************************************************************************)
(* Lead-qualification engine of the WhatsApp sales agent: the field        *)
(* validators and extractors (validators.py), the scoring policy, and the  *)
(* per-conversation state machine driven by get_ai_response (app.py).      *)
(*                                                                         *)
(* A text is a sequence of one-character strings.  Python's None and the   *)
(* empty string are both falsy; an optional value is None == << >> or      *)
(* Some(v) == <<v>>.                                                       *)
(***************************************************************************)
EXTENDS Integers, Sequences, FiniteSets, TLC

-----------------------------------------------------------------------------
(* Python str primitives used by the validators *)

Lowercase ==
    <<"a", "b", "c", "d", "e", "f", "g", "h", "i", "j", "k", "l", "m",
      "n", "o", "p", "q", "r", "s", "t", "u", "v", "w", "x", "y", "z">>

Uppercase ==
    <<"A", "B", "C", "D", "E", "F", "G", "H", "I", "J", "K", "L", "M",
      "N", "O", "P", "Q", "R", "S", "T", "U", "V", "W", "X", "Y", "Z">>

Digits ==
    <<"0", "1", "2", "3", "4", "5", "6", "7", "8", "9">>

IndexOf(seq, c) ==
    IF \E i \in 1..Len(seq) : seq[i] = c
    THEN CHOOSE i \in 1..Len(seq) : seq[i] = c
    ELSE 0

isdigit(c) == IndexOf(Digits, c) > 0

isalpha(c) == IndexOf(Lowercase, c) > 0 \/ IndexOf(Uppercase, c) > 0

isspace(c) == c = " "

upper_char(c) ==
    IF IndexOf(Lowercase, c) > 0 THEN Uppercase[IndexOf(Lowercase, c)] ELSE c

lower_char(c) ==
    IF IndexOf(Uppercase, c) > 0 THEN Lowercase[IndexOf(Uppercase, c)] ELSE c

upper(s) == [i \in 1..Len(s) |-> upper_char(s[i])]

lower(s) == [i \in 1..Len(s) |-> lower_char(s[i])]

strip(s) ==
    LET kept == {i \in 1..Len(s) : ~isspace(s[i])}
        first == CHOOSE i \in kept : \A j \in kept : i <= j
        last == CHOOSE i \in kept : \A j \in kept : i >= j
    IN  IF kept = {} THEN << >> ELSE SubSeq(s, first, last)

startswith(s, prefix) ==
    Len(prefix) <= Len(s) /\ SubSeq(s, 1, Len(prefix)) = prefix

\* str.find, 1-based; 0 when the pattern does not occur
find(s, pat) ==
    LET hits == {i \in 1..(Len(s) - Len(pat) + 1) :
                    SubSeq(s, i, i + Len(pat) - 1) = pat}
    IN  IF hits = {} THEN 0 ELSE CHOOSE i \in hits : \A j \in hits : i <= j

contains(s, pat) == find(s, pat) > 0

RECURSIVE replace(_, _, _)
replace(s, old, new) ==
    LET i == find(s, old)
    IN  IF i = 0 THEN s
        ELSE SubSeq(s, 1, i - 1) \o new
             \o replace(SubSeq(s, i + Len(old), Len(s)), old, new)

\* str.split(sep)
RECURSIVE split(_, _)
split(s, sep) ==
    LET i == find(s, sep)
    IN  IF i = 0 THEN <<s>>
        ELSE <<SubSeq(s, 1, i - 1)>>
             \o split(SubSeq(s, i + Len(sep), Len(s)), sep)

\* str.split() with no separator: runs of whitespace separate, no empty words
RECURSIVE split_words(_)
split_words(s) ==
    LET t == strip(s)
        i == find(t, <<" ">>)
    IN  IF t = << >> THEN << >>
        ELSE IF i = 0 THEN <<t>>
        ELSE <<SubSeq(t, 1, i - 1)>> \o split_words(SubSeq(t, i + 1, Len(t)))

RECURSIVE join(_, _)
join(words, sep) ==
    IF words = << >> THEN << >>
    ELSE IF Len(words) = 1 THEN words[1]
    ELSE words[1] \o sep \o join(Tail(words), sep)

capitalize(word) ==
    IF word = << >> THEN << >>
    ELSE <<upper_char(word[1])>> \o lower(Tail(word))

\* re.sub(r'[^\d.]', '', s)
IsDigitOrDot(c) == isdigit(c) \/ c = "."

keep_digits_and_dots(s) == SelectSeq(s, IsDigitOrDot)

\* re.sub(r'[^\d+]', '', s)
IsDigitOrPlus(c) == isdigit(c) \/ c = "+"

keep_digits_and_plus(s) == SelectSeq(s, IsDigitOrPlus)

None == << >>

Some(v) == <<v>>

\* class ValidationResult
ValidationResult(is_valid, value, message) ==
    [raised |-> FALSE, is_valid |-> is_valid, value |-> value,
     message |-> message]

\* an exception leaving a validator
Raise(exception) ==
    [raised |-> TRUE, is_valid |-> FALSE, value |-> None,
     message |-> exception]

-----------------------------------------------------------------------------
(* validators.py *)

\* The numbering plan known to the phonenumbers library, as E.164 texts.
ValidE164 ==
    { <<"+", "9", "7", "1", "5", "0", "1", "2", "3", "4", "5", "6", "7">>,
      <<"+", "9", "7", "1", "5", "5", "9", "8", "7", "6", "5", "4", "3">> }

UAE_PREFIX == <<"+", "9", "7", "1">>

\* phonenumbers.parse + is_valid_number + format_number(E164): a number
\* without "+" is read in region AE (national prefix 0, or the country code
\* written without "+").  None stands for NumberParseException or an
\* invalid number.
phonenumbers_e164(cleaned) ==
    LET candidate ==
            IF startswith(cleaned, <<"+">>) THEN cleaned
            ELSE IF startswith(cleaned, <<"0">>) THEN UAE_PREFIX \o Tail(cleaned)
            ELSE IF startswith(cleaned, <<"9", "7", "1">>) THEN <<"+">> \o cleaned
            ELSE UAE_PREFIX \o cleaned
    IN  IF candidate \in ValidE164 THEN Some(candidate) ELSE None

\* re.match(r'^(\d)\1+$', s)
all_same_digit(s) ==
    /\ Len(s) >= 2
    /\ \A i \in 1..Len(s) : isdigit(s[i]) /\ s[i] = s[1]

validate_phone_number(phone_input) ==
    IF phone_input = << >> \/ Len(strip(phone_input)) < 5
    THEN ValidationResult(FALSE, None, "Phone number too short")
    ELSE LET cleaned == keep_digits_and_plus(strip(phone_input))
             parsed == phonenumbers_e164(cleaned)
         IN  IF all_same_digit(replace(cleaned, <<"+">>, << >>))
             THEN ValidationResult(FALSE, None, "Invalid phone number pattern")
             ELSE IF parsed # None
             THEN ValidationResult(TRUE, parsed, "Valid phone number")
             ELSE ValidationResult(FALSE, None, "Invalid phone number")

IsLocalChar(c) == isalpha(c) \/ isdigit(c) \/ c \in {".", "-", "_", "+"}

IsLabelChar(c) == isalpha(c) \/ isdigit(c) \/ c = "-"

\* email_validator.validate_email(..., check_deliverability=False): syntax of
\* local part and domain; the normalized form lower-cases the domain.  None
\* stands for EmailNotValidError.
email_validator_normalized(email) ==
    LET parts == split(email, <<"@">>)
        local == parts[1]
        domain == parts[2]
        labels == split(domain, <<".">>)
        tld == labels[Len(labels)]
    IN  IF /\ Len(parts) = 2
           /\ local # << >>
           /\ \A i \in 1..Len(local) : IsLocalChar(local[i])
           /\ local[1] # "." /\ local[Len(local)] # "."
           /\ Len(labels) >= 2
           /\ \A k \in 1..Len(labels) :
                 /\ labels[k] # << >>
                 /\ \A i \in 1..Len(labels[k]) : IsLabelChar(labels[k][i])
           /\ Len(tld) >= 2
           /\ \A i \in 1..Len(tld) : isalpha(tld[i])
        THEN Some(local \o <<"@">> \o lower(domain))
        ELSE None

validate_email(email_input) ==
    IF email_input = << >> \/ ~contains(email_input, <<"@">>)
    THEN ValidationResult(FALSE, None, "Invalid email format")
    ELSE LET validated == email_validator_normalized(strip(email_input))
         IN  IF validated # None
             THEN ValidationResult(TRUE, validated, "Valid email")
             ELSE ValidationResult(FALSE, None, "EmailNotValidError")

MIN_BUDGET == 10000

MAX_BUDGET == 1000000000

THOUSAND == 1000

MILLION == 1000000

LAKH == 100000

\* float(s) for a text of digits and dots: the digits before and after the
\* point; ok is FALSE where Python raises ValueError.  A text of more than
\* 308 digits, for which float gives inf and int raises OverflowError, is
\* longer than any text considered here.
python_float(s) ==
    LET dot == find(s, <<".">>)
        int_digits == IF dot = 0 THEN s ELSE SubSeq(s, 1, dot - 1)
        frac_digits == IF dot = 0 THEN << >> ELSE SubSeq(s, dot + 1, Len(s))
    IN  [ok |-> /\ ~contains(frac_digits, <<".">>)
                /\ Len(int_digits) + Len(frac_digits) > 0,
         int_digits |-> int_digits,
         frac_digits |-> frac_digits]

\* The integer a digit text denotes; every amount above MAX_BUDGET is
\* represented by MAX_BUDGET + 1, which the bounds check treats alike.
RECURSIVE digits_to_int(_, _)
digits_to_int(ds, acc) ==
    IF ds = << >> THEN acc
    ELSE IF acc > MAX_BUDGET \div 10 THEN MAX_BUDGET + 1
    ELSE digits_to_int(Tail(ds), acc * 10 + (IndexOf(Digits, ds[1]) - 1))

decimal_places(multiplier) ==
    CASE multiplier = 1 -> 0
      [] multiplier = THOUSAND -> 3
      [] multiplier = LAKH -> 5
      [] multiplier = MILLION -> 6

\* int(number * multiplier) for a power-of-ten multiplier: the decimal point
\* moves right and the remaining fraction is truncated.  The arithmetic is
\* exact; Python's binary product can be one unit lower for a fraction that
\* has no exact binary form.
int_times(number, multiplier) ==
    LET places == decimal_places(multiplier)
        moved == [i \in 1..places |->
                    IF i <= Len(number.frac_digits)
                    THEN number.frac_digits[i] ELSE "0"]
    IN  digits_to_int(number.int_digits \o moved, 0)

\* str.format of a dict with a non-empty format spec: object.__format__
\* raises TypeError
dict_format_raises(format_spec) == format_spec # ""

\* lines 124-158: the single-amount parse
parse_single_amount(text) ==
    LET multiplier ==
            IF contains(text, <<"K">>) THEN THOUSAND
            ELSE IF contains(text, <<"M">>) THEN MILLION
            ELSE IF contains(text, <<"M", "I", "L", "L", "I", "O", "N">>) THEN MILLION
            ELSE IF contains(text, <<"L", "A", "K", "H">>) THEN LAKH
            ELSE 1
        unit ==
            IF contains(text, <<"K">>) THEN <<"K">>
            ELSE IF contains(text, <<"M">>) THEN <<"M">>
            ELSE IF contains(text, <<"M", "I", "L", "L", "I", "O", "N">>)
                 THEN <<"M", "I", "L", "L", "I", "O", "N">>
            ELSE IF contains(text, <<"L", "A", "K", "H">>)
                 THEN <<"L", "A", "K", "H">>
            ELSE << >>
        stripped == IF unit = << >> THEN text ELSE replace(text, unit, << >>)
        number == python_float(keep_digits_and_dots(stripped))
        value == int_times(number, multiplier)
    IN  IF ~number.ok
        THEN ValidationResult(FALSE, None, "Could not parse budget amount")
        ELSE IF value < MIN_BUDGET
        THEN ValidationResult(FALSE, None, "Budget seems too low")
        ELSE IF value > MAX_BUDGET
        THEN ValidationResult(FALSE, None, "Budget seems too high")
        ELSE ValidationResult(TRUE, Some([type |-> "fixed", value |-> value]),
                              "Budget")

RECURSIVE validate_budget(_)
validate_budget(budget_input) ==
    IF budget_input = << >>
    THEN ValidationResult(FALSE, None, "No budget provided")
    ELSE
      LET upper_text == upper(strip(budget_input))
          no_currency ==
              replace(replace(replace(upper_text, <<"A", "E", "D">>, << >>),
                              <<"D", "I", "R", "H", "A", "M", "S">>, << >>),
                      <<"D", "H", "S">>, << >>)
          text == strip(replace(no_currency, <<",">>, << >>))
          separator == IF contains(text, <<"-">>) THEN <<"-">> ELSE <<"T", "O">>
          parts == split(text, separator)
          min_result == validate_budget(strip(parts[1]))
          max_result == validate_budget(strip(parts[2]))
      IN  IF (contains(text, <<"-">>) \/ contains(text, <<"T", "O">>))
             /\ Len(parts) = 2
          THEN IF min_result.raised THEN min_result
               ELSE IF max_result.raised THEN max_result
               ELSE IF min_result.is_valid /\ max_result.is_valid
               THEN IF dict_format_raises(",")
                    THEN Raise("TypeError")
                    ELSE ValidationResult(TRUE,
                            Some([type |-> "range",
                                  min |-> min_result.value[1],
                                  max |-> max_result.value[1]]),
                            "Budget range")
               ELSE parse_single_amount(text)
          ELSE parse_single_amount(text)

IsNameChar(c) == isalpha(c) \/ isspace(c) \/ c \in {"-", "'", "."}

validate_name(name_input) ==
    IF name_input = << >>
    THEN ValidationResult(FALSE, None, "No name provided")
    ELSE
      LET cleaned == strip(name_input)
          digit_count == Cardinality({i \in 1..Len(cleaned) : isdigit(cleaned[i])})
          formatted_name ==
              LET words == split_words(cleaned)
              IN  join([k \in 1..Len(words) |-> capitalize(words[k])], <<" ">>)
      IN  IF Len(cleaned) < 2
          THEN ValidationResult(FALSE, None, "Name too short")
          ELSE IF Len(cleaned) > 100
          THEN ValidationResult(FALSE, None, "Name too long")
          ELSE IF digit_count > 2
          THEN ValidationResult(FALSE, None, "Name contains too many numbers")
          ELSE IF ~(\A i \in 1..Len(cleaned) : IsNameChar(cleaned[i]))
          THEN ValidationResult(FALSE, None, "Name contains invalid characters")
          ELSE ValidationResult(TRUE, Some(formatted_name), "Valid name")

dubai_areas ==
    << <<"D", "o", "w", "n", "t", "o", "w", "n", " ", "D", "u", "b", "a", "i">>,
       <<"D", "u", "b", "a", "i", " ", "M", "a", "r", "i", "n", "a">>,
       <<"P", "a", "l", "m", " ", "J", "u", "m", "e", "i", "r", "a", "h">>,
       <<"J", "B", "R">>,
       <<"J", "u", "m", "e", "i", "r", "a", "h", " ", "B", "e", "a", "c", "h", " ", "R", "e", "s", "i", "d", "e", "n", "c", "e">>,
       <<"B", "u", "s", "i", "n", "e", "s", "s", " ", "B", "a", "y">>,
       <<"D", "u", "b", "a", "i", " ", "H", "i", "l", "l", "s">>,
       <<"A", "r", "a", "b", "i", "a", "n", " ", "R", "a", "n", "c", "h", "e", "s">>,
       <<"J", "u", "m", "e", "i", "r", "a", "h", " ", "V", "i", "l", "l", "a", "g", "e", " ", "C", "i", "r", "c", "l", "e">>,
       <<"J", "V", "C">>,
       <<"D", "u", "b", "a", "i", " ", "S", "p", "o", "r", "t", "s", " ", "C", "i", "t", "y">>,
       <<"M", "o", "t", "o", "r", " ", "C", "i", "t", "y">>,
       <<"S", "t", "u", "d", "i", "o", " ", "C", "i", "t", "y">>,
       <<"D", "i", "s", "c", "o", "v", "e", "r", "y", " ", "G", "a", "r", "d", "e", "n", "s">>,
       <<"J", "L", "T">>,
       <<"J", "u", "m", "e", "i", "r", "a", "h", " ", "L", "a", "k", "e", "s", " ", "T", "o", "w", "e", "r", "s">>,
       <<"D", "I", "F", "C">>,
       <<"D", "u", "b", "a", "i", " ", "I", "n", "t", "e", "r", "n", "a", "t", "i", "o", "n", "a", "l", " ", "F", "i", "n", "a", "n", "c", "i", "a", "l", " ", "C", "e", "n", "t", "r", "e">>,
       <<"M", "i", "r", "d", "i", "f">>,
       <<"D", "e", "i", "r", "a">>,
       <<"B", "u", "r", " ", "D", "u", "b", "a", "i">>,
       <<"K", "a", "r", "a", "m", "a">>,
       <<"S", "a", "t", "w", "a">>,
       <<"A", "l", " ", "B", "a", "r", "s", "h", "a">>,
       <<"J", "u", "m", "e", "i", "r", "a", "h">>,
       <<"U", "m", "m", " ", "S", "u", "q", "e", "i", "m">>,
       <<"A", "l", " ", "Q", "u", "o", "z">>,
       <<"D", "u", "b", "a", "i", " ", "S", "i", "l", "i", "c", "o", "n", " ", "O", "a", "s", "i", "s">>,
       <<"D", "S", "O">>,
       <<"I", "n", "t", "e", "r", "n", "a", "t", "i", "o", "n", "a", "l", " ", "C", "i", "t", "y">>,
       <<"D", "u", "b", "a", "i", " ", "C", "r", "e", "e", "k", " ", "H", "a", "r", "b", "o", "u", "r">>,
       <<"C", "i", "t", "y", " ", "W", "a", "l", "k">>,
       <<"A", "l", " ", "F", "u", "r", "j", "a", "n">>,
       <<"D", "a", "m", "a", "c", " ", "H", "i", "l", "l", "s">>,
       <<"D", "u", "b", "a", "i", " ", "S", "o", "u", "t", "h">>,
       <<"T", "o", "w", "n", " ", "S", "q", "u", "a", "r", "e">>,
       <<"R", "e", "e", "m">>,
       <<"M", "i", "r", "a">>,
       <<"T", "i", "l", "a", "l", " ", "A", "l", " ", "G", "h", "a", "f">>,
       <<"D", "u", "b", "a", "i", " ", "L", "a", "n", "d">> >>

property_types ==
    << [prop_type |-> <<"a", "p", "a", "r", "t", "m", "e", "n", "t">>,
        keywords |-> << <<"a", "p", "a", "r", "t", "m", "e", "n", "t">>, <<"f", "l", "a", "t">>, <<"u", "n", "i", "t">> >>],
       [prop_type |-> <<"v", "i", "l", "l", "a">>,
        keywords |-> << <<"v", "i", "l", "l", "a">>, <<"t", "o", "w", "n", "h", "o", "u", "s", "e">>, <<"t", "o", "w", "n", "h", "o", "m", "e">> >>],
       [prop_type |-> <<"p", "e", "n", "t", "h", "o", "u", "s", "e">>,
        keywords |-> << <<"p", "e", "n", "t", "h", "o", "u", "s", "e">>, <<"p", "e", "n", "t", " ", "h", "o", "u", "s", "e">> >>],
       [prop_type |-> <<"s", "t", "u", "d", "i", "o">>,
        keywords |-> << <<"s", "t", "u", "d", "i", "o">> >>],
       [prop_type |-> <<"d", "u", "p", "l", "e", "x">>,
        keywords |-> << <<"d", "u", "p", "l", "e", "x">> >>],
       [prop_type |-> <<"l", "a", "n", "d">>,
        keywords |-> << <<"l", "a", "n", "d">>, <<"p", "l", "o", "t">> >>],
       [prop_type |-> <<"c", "o", "m", "m", "e", "r", "c", "i", "a", "l">>,
        keywords |-> << <<"c", "o", "m", "m", "e", "r", "c", "i", "a", "l">>, <<"o", "f", "f", "i", "c", "e">>, <<"s", "h", "o", "p">>, <<"r", "e", "t", "a", "i", "l">> >>] >>

\* the first area, in list order, whose upper-cased name occurs in the
\* upper-cased text
extract_location(text) ==
    LET text_upper == upper(text)
        hits == {k \in 1..Len(dubai_areas) :
                    contains(text_upper, upper(dubai_areas[k]))}
    IN  IF hits = {} THEN None
        ELSE Some(dubai_areas[CHOOSE k \in hits : \A j \in hits : k <= j])

\* the first category, in declaration order, one of whose keywords occurs in
\* the lower-cased text
extract_property_type(text) ==
    LET text_lower == lower(text)
        hits == {k \in 1..Len(property_types) :
                    \E w \in 1..Len(property_types[k].keywords) :
                        contains(text_lower, property_types[k].keywords[w])}
    IN  IF hits = {} THEN None
        ELSE Some(capitalize(
                property_types[CHOOSE k \in hits : \A j \in hits : k <= j].prop_type))

NAME_POINTS == 10

PHONE_POINTS == 25

EMAIL_POINTS == 15

BUDGET_POINTS == 20

LOCATION_POINTS == 15

PROPERTY_TYPE_POINTS == 15

MAX_SCORE == 100

\* Python truthiness of a profile slot: None and the empty text are falsy, a
\* non-empty text or a budget dict is truthy
truthy(key, slot) ==
    slot # None /\ (key = "budget" \/ slot[1] # << >>)

\* the points of phone and budget swapped
calculate_lead_score_swapped(lead_data) ==
    LET s1 == IF truthy("name", lead_data.name) THEN NAME_POINTS ELSE 0
        s2 == IF truthy("phone", lead_data.phone) THEN s1 + BUDGET_POINTS ELSE s1
        s3 == IF truthy("email", lead_data.email) THEN s2 + EMAIL_POINTS ELSE s2
        s4 == IF truthy("budget", lead_data.budget) THEN s3 + PHONE_POINTS ELSE s3
        s5 == IF truthy("location_preference", lead_data.location_preference)
              THEN s4 + LOCATION_POINTS ELSE s4
        score == IF truthy("property_type", lead_data.property_type)
                 THEN s5 + PROPERTY_TYPE_POINTS ELSE s5
    IN  IF score < MAX_SCORE THEN score ELSE MAX_SCORE

calculate_lead_score(lead_data) ==
    LET s1 == IF truthy("name", lead_data.name) THEN NAME_POINTS ELSE 0
        s2 == IF truthy("phone", lead_data.phone) THEN s1 + PHONE_POINTS ELSE s1
        s3 == IF truthy("email", lead_data.email) THEN s2 + EMAIL_POINTS ELSE s2
        s4 == IF truthy("budget", lead_data.budget) THEN s3 + BUDGET_POINTS ELSE s3
        s5 == IF truthy("location_preference", lead_data.location_preference)
              THEN s4 + LOCATION_POINTS ELSE s4
        score == IF truthy("property_type", lead_data.property_type)
                 THEN s5 + PROPERTY_TYPE_POINTS ELSE s5
    IN  IF score < MAX_SCORE THEN score ELSE MAX_SCORE

-----------------------------------------------------------------------------
(* app.py: the conversation store and the inbound-message handler *)

\* conversation identities (the From field of the webhook)
Phones == {"whatsapp:+1", "whatsapp:+2"}

\* inbound texts (the Body field of the webhook)
Messages ==
    { <<"a", "l", "i">>,
      <<"0", "5", "0", "1", "2", "3", "4", "5", "6", "7">>,
      <<"a", "@", "b", ".", "c", "o">>,
      <<"5", "0", "0", "k", "-", "1", "M">>,
      <<"1", "0", "0", "0", "0", "-", "2", "0", "0", "0", "0", "@", "x", ".", "o", "r", "g">>,
      <<"j", "b", "r", " ", "v", "i", "l", "l", "a">>,
      <<"h", "i", "!">> }

\* what the chat-completion call yields: None when the call raises,
\* otherwise the text of the first choice
LLMResponses ==
    { None, Some(<<" ", "*", "*", "o", "k", "*", "*">>) }

\* total number of inbound messages explored
MaxMessages == 3

FALLBACK_MESSAGE == <<"I apologize, I'm having a brief technical moment!">>

FieldNames ==
    {"name", "phone", "email", "budget", "location_preference", "property_type"}

VARIABLES
    conversation_states,  \* phone number -> state dict, for the numbers seen
    conversations,        \* phone number -> list of saved messages
    inbound,              \* phone number -> webhook calls handled so far
    request,              \* the webhook call handled last
    processing_result,    \* what process_user_input gave for that call
    response,             \* what the chat-completion call gave for that call
    reply,                \* the text returned for that call
    objects,              \* the state and lead_data dicts, by identity
    threads               \* the calls in progress: position and local names

vars ==
    <<conversation_states, conversations, inbound, request,
      processing_result, response, reply, objects, threads>>

\* the request-handling threads of the interleaved handler
Workers == {"w1", "w2"}

\* no dict allocated, no store entry
no_objects == [states |-> << >>, leads |-> << >>, entry |-> 0]

\* the local names of get_ai_response and process_user_input before a call
idle ==
    [pc |-> "idle", user_message |-> << >>, absent |-> FALSE, state |-> 0,
     lead_data |-> 0, extracted_data |-> << >>, pending |-> << >>,
     lead_score |-> 0, message_count |-> 0, target |-> 0, reply |-> << >>]

new_conversation_state ==
    [stage |-> "greeting",
     lead_data |-> [name |-> None, phone |-> None, email |-> None,
                    budget |-> None, location_preference |-> None,
                    property_type |-> None, validated_fields |-> << >>],
     lead_score |-> 0,
     message_count |-> 0]

\* the entry is created anew on every call
get_conversation_state_recreating(states, phone_number) ==
    [p \in DOMAIN states \cup {phone_number} |->
        IF p = phone_number THEN new_conversation_state ELSE states[p]]

\* the store after get_conversation_state(phone_number): the entry is
\* created when absent; the state returned is the entry itself
get_conversation_state(states, phone_number) ==
    IF phone_number \in DOMAIN states
    THEN states
    ELSE [p \in DOMAIN states \cup {phone_number} |->
            IF p = phone_number THEN new_conversation_state ELSE states[p]]

\* every entry of the store refers to one shared state dict
update_conversation_state_shared(states, phone_number, updates) ==
    LET present == get_conversation_state(states, phone_number)
    IN  [p \in DOMAIN present |-> updates]

\* the update leaves the stored lead_score as it was
update_conversation_state_keeping_score(states, phone_number, updates) ==
    LET present == get_conversation_state(states, phone_number)
    IN  [present EXCEPT ![phone_number] =
            [updates EXCEPT !.lead_score = present[phone_number].lead_score]]

\* the store after update_conversation_state(phone_number, updates)
update_conversation_state(states, phone_number, updates) ==
    LET present == get_conversation_state(states, phone_number)
    IN  [present EXCEPT ![phone_number] = updates]

\* the user's message is saved only together with the assistant's
save_message_paired(history, phone_number, role, content) ==
    LET present ==
            IF phone_number \in DOMAIN history THEN history
            ELSE [p \in DOMAIN history \cup {phone_number} |->
                    IF p = phone_number THEN << >> ELSE history[p]]
    IN  IF role = "user" THEN present
        ELSE [present EXCEPT ![phone_number] =
                Append(Append(@, [role |-> "user", content |-> content]),
                       [role |-> role, content |-> content])]

\* the history store after save_message(phone_number, role, content)
save_message(history, phone_number, role, content) ==
    LET present ==
            IF phone_number \in DOMAIN history THEN history
            ELSE [p \in DOMAIN history \cup {phone_number} |->
                    IF p = phone_number THEN << >> ELSE history[p]]
    IN  [present EXCEPT ![phone_number] =
            Append(@, [role |-> role, content |-> content])]

\* what lines 168-198 compute from the text alone, for each inbound text
validation ==
    [user_message \in Messages |->
        [name_result |-> validate_name(user_message),
         phone_result |-> validate_phone_number(user_message),
         email_result |-> validate_email(user_message),
         budget_result |-> validate_budget(user_message),
         location |-> extract_location(user_message),
         property_type |-> extract_property_type(user_message)]]

\* the profile is replaced by the extracted values: a field without one is
\* emptied
merge_extracted_replacing(lead_data, extracted_data) ==
    LET merged(key) ==
            IF key \in DOMAIN extracted_data THEN extracted_data[key] ELSE None
    IN  [name |-> merged("name"),
         phone |-> merged("phone"),
         email |-> merged("email"),
         budget |-> merged("budget"),
         location_preference |-> merged("location_preference"),
         property_type |-> merged("property_type"),
         validated_fields |-> lead_data.validated_fields]

\* the extractors' results are stored unguarded: None when nothing is found
merge_extracted_unguarded(lead_data, extracted_data) ==
    LET merged(key) ==
            IF key \in DOMAIN extracted_data /\ truthy(key, extracted_data[key])
            THEN extracted_data[key]
            ELSE IF key \in {"location_preference", "property_type"}
            THEN None
            ELSE lead_data[key]
    IN  [name |-> merged("name"),
         phone |-> merged("phone"),
         email |-> merged("email"),
         budget |-> merged("budget"),
         location_preference |-> merged("location_preference"),
         property_type |-> merged("property_type"),
         validated_fields |-> lead_data.validated_fields]

\* lines 202-205: every truthy extracted value replaces the profile's
merge_extracted(lead_data, extracted_data) ==
    LET merged(key) ==
            IF key \in DOMAIN extracted_data /\ truthy(key, extracted_data[key])
            THEN extracted_data[key]
            ELSE lead_data[key]
    IN  [name |-> merged("name"),
         phone |-> merged("phone"),
         email |-> merged("email"),
         budget |-> merged("budget"),
         location_preference |-> merged("location_preference"),
         property_type |-> merged("property_type"),
         validated_fields |-> lead_data.validated_fields]

\* lines 165-166: the name validator runs only while the profile has no name
name_is_attempted(lead_data, user_message) ==
    /\ ~truthy("name", lead_data.name)
    /\ Len(split_words(user_message)) <= 4
    /\ Len(user_message) < 50

\* lines 160-214 of process_user_input, on the store that holds the state
\* and with what the validators and extractors return for the text: the
\* store it leaves (validated_fields is appended in place, also when
\* validate_budget raises afterwards) and what it returns
process_results(present, phone_number, user_message, found) ==
    LET lead_data == present[phone_number].lead_data
        name_result == found.name_result
        name_ok == name_is_attempted(lead_data, user_message)
                   /\ name_result.is_valid
        phone_result == found.phone_result
        email_result == found.email_result
        budget_result == found.budget_result
        location == found.location
        property_type == found.property_type
        fields1 == IF name_ok
                   THEN Append(lead_data.validated_fields, "name")
                   ELSE lead_data.validated_fields
        fields2 == IF phone_result.is_valid
                   THEN Append(fields1, "phone") ELSE fields1
        fields3 == IF email_result.is_valid
                   THEN Append(fields2, "email") ELSE fields2
        fields4 == IF budget_result.is_valid
                   THEN Append(fields3, "budget") ELSE fields3
        candidate ==
            [name |-> IF name_ok THEN name_result.value ELSE None,
             phone |-> phone_result.value,
             email |-> email_result.value,
             budget |-> budget_result.value,
             location_preference |-> location,
             property_type |-> property_type]
        keys == {key \in FieldNames :
                    IF key \in {"location_preference", "property_type"}
                    THEN truthy(key, candidate[key])
                    ELSE candidate[key] # None}
        extracted_data == [key \in keys |-> candidate[key]]
        new_lead_data ==
            merge_extracted([lead_data EXCEPT !.validated_fields = fields4],
                            extracted_data)
    IN  IF budget_result.raised
        THEN [states |-> [present EXCEPT
                            ![phone_number].lead_data.validated_fields = fields3],
              result |-> [kind |-> "raised",
                          exception |-> budget_result.message]]
        ELSE [states |-> [present EXCEPT ![phone_number].lead_data = new_lead_data],
              result |-> [kind |-> "returned",
                          extracted_data |-> extracted_data,
                          lead_data |-> new_lead_data,
                          lead_score |-> calculate_lead_score(new_lead_data)]]

process_user_input(states, phone_number, user_message) ==
    process_results(get_conversation_state(states, phone_number),
                    phone_number, user_message, validation[user_message])

SCHEDULING_SCORE == 80

QUALIFYING_SCORE == 40

\* the thresholds compared with > instead of >=
next_stage_strict(stage, lead_score) ==
    IF lead_score > SCHEDULING_SCORE THEN "scheduling"
    ELSE IF lead_score > QUALIFYING_SCORE THEN "qualifying"
    ELSE stage

\* lines 267-271
next_stage(stage, lead_score) ==
    IF lead_score >= SCHEDULING_SCORE THEN "scheduling"
    ELSE IF lead_score >= QUALIFYING_SCORE THEN "qualifying"
    ELSE stage

\* lines 298-301
clean_ai_message(content) ==
    replace(replace(replace(strip(content), <<"*", "*">>, << >>),
                    <<"_", "_">>, << >>),
            <<"*">>, << >>)

TotalInbound ==
    LET RECURSIVE Sum(_)
        Sum(S) == IF S = {} THEN 0
                  ELSE LET p == CHOOSE q \in S : TRUE
                       IN  inbound[p] + Sum(S \ {p})
    IN  Sum(Phones)

Init ==
    /\ conversation_states = [p \in {} |-> new_conversation_state]
    /\ conversations = [p \in {} |-> << >>]
    /\ inbound = [p \in Phones |-> 0]
    /\ request = [kind |-> "none"]
    /\ processing_result = [kind |-> "none"]
    /\ response = "none"
    /\ reply = << >>
    /\ objects = no_objects
    /\ threads = [t \in Workers |-> idle]

\* POST /webhook/whatsapp: get_ai_response(From, Body), with what the
\* chat-completion call yields for it
whatsapp_webhook(phone_number, user_message, llm_response) ==
    /\ TotalInbound < MaxMessages
    /\ inbound' = [inbound EXCEPT ![phone_number] = @ + 1]
    /\ request' = [kind |-> "message", phone_number |-> phone_number,
                   user_message |-> user_message]
    /\ \E processed \in {process_user_input(conversation_states, phone_number,
                                            user_message)} :
        LET state == processed.states[phone_number]
            updated ==
                [stage |-> next_stage(state.stage, processed.result.lead_score),
                 lead_data |-> processed.result.lead_data,
                 lead_score |-> processed.result.lead_score,
                 message_count |-> state.message_count + 1]
            with_user == save_message(conversations, phone_number, "user",
                                      user_message)
            ai_message == clean_ai_message(llm_response[1])
        IN  /\ processing_result' = processed.result
            /\ IF processed.result.kind = "raised"
               THEN /\ conversation_states' = processed.states
                    /\ conversations' = conversations
                    /\ response' = "not called"
                    /\ reply' = FALLBACK_MESSAGE
               ELSE /\ conversation_states' =
                          update_conversation_state(processed.states,
                                                    phone_number, updated)
                    /\ IF llm_response = None
                       THEN /\ conversations' = with_user
                            /\ response' = "raised"
                            /\ reply' = FALLBACK_MESSAGE
                       ELSE /\ conversations' =
                                  save_message(with_user, phone_number,
                                               "assistant", ai_message)
                            /\ response' = "returned"
                            /\ reply' = ai_message
    /\ UNCHANGED <<objects, threads>>

\* the external collaborator that closes a lead whose viewing is being
\* scheduled: update_conversation_state(phone_number, {"stage": "completed"})
mark_completed(phone_number) ==
    /\ phone_number \in DOMAIN conversation_states
    /\ conversation_states[phone_number].stage = "scheduling"
    /\ conversation_states' =
          update_conversation_state(conversation_states, phone_number,
              [conversation_states[phone_number] EXCEPT !.stage = "completed"])
    /\ UNCHANGED <<conversations, inbound, request, processing_result,
                   response, reply, objects, threads>>

Next ==
    \E phone_number \in Phones, user_message \in Messages,
       llm_response \in LLMResponses :
        whatsapp_webhook(phone_number, user_message, llm_response)

Spec == Init /\ [][Next]_vars

NextExternal ==
    \/ Next
    \/ \E phone_number \in Phones : mark_completed(phone_number)

SpecExternal == Init /\ [][NextExternal]_vars

-----------------------------------------------------------------------------
(* Two calls of get_ai_response for one conversation on two threads, one
   statement at a time.  Dicts are objects: the store entry refers to a state
   dict, a state dict refers to a lead_data dict, and a call's local names
   refer to the dicts it obtained.  The validators of lines 165-198, which
   are pure apart from the appends to validated_fields, are one step. *)

\* the From field both calls carry
From == "whatsapp:+1"

\* the texts the two calls carry
InterleavedMessages ==
    { <<"a", "l", "i">>,
      <<"0", "5", "0", "1", "2", "3", "4", "5", "6", "7">>,
      <<"j", "b", "r", " ", "v", "i", "l", "l", "a">>,
      <<"5", "0", "0", "k", "-", "1", "M">> }

\* the insertion order of extracted_data
extraction_order ==
    <<"name", "phone", "email", "budget", "location_preference",
      "property_type">>

\* conversation_states as the dicts of the heap read through their references
stored(objs) ==
    IF objs.entry = 0
    THEN [p \in {} |-> new_conversation_state]
    ELSE [p \in {From} |->
            [stage |-> objs.states[objs.entry].stage,
             lead_data |-> objs.leads[objs.states[objs.entry].lead_data],
             lead_score |-> objs.states[objs.entry].lead_score,
             message_count |-> objs.states[objs.entry].message_count]]

\* the dict literal of get_conversation_state allocated on the heap and
\* assigned to the store entry
create_state(objs) ==
    [states |-> Append(objs.states,
                       [new_conversation_state EXCEPT
                          !.lead_data = Len(objs.leads) + 1]),
     leads |-> Append(objs.leads, new_conversation_state.lead_data),
     entry |-> Len(objs.states) + 1]

\* lead_data[key] = value: the rest of the dict is dropped
set_key_rebuilding(lead_data, key, value) ==
    [k \in DOMAIN lead_data |->
        IF k = key THEN value
        ELSE IF k = "validated_fields" THEN lead_data[k]
        ELSE None]

\* lead_data[key] = value
set_key(lead_data, key, value) ==
    [lead_data EXCEPT ![key] = value]

\* a step of thread t that leaves it with the given local names and the heap
\* as given
proceed(t, locals, objs) ==
    /\ threads' = [threads EXCEPT ![t] = locals]
    /\ objects' = objs
    /\ conversation_states' = stored(objs)

\* whatsapp_webhook receives a message and calls get_ai_response
receive(t, user_message) ==
    /\ threads[t].pc = "idle"
    /\ inbound' = [inbound EXCEPT ![From] = @ + 1]
    /\ proceed(t, [threads[t] EXCEPT !.pc = "get_state",
                                     !.user_message = user_message], objects)
    /\ UNCHANGED <<conversations, request, processing_result, response, reply>>

\* process_user_input, lines 159-160: get_conversation_state (the membership
\* test, the creation, the return) and the read of state["lead_data"]
get_state(t) ==
    /\ threads[t].pc \in {"get_state", "create", "return_state", "lead_data"}
    /\ CASE threads[t].pc = "get_state" ->
              proceed(t, [threads[t] EXCEPT
                            !.pc = IF objects.entry = 0 THEN "create"
                                   ELSE "return_state",
                            !.absent = (objects.entry = 0)], objects)
         [] threads[t].pc = "create" ->
              proceed(t, [threads[t] EXCEPT !.pc = "return_state"],
                      create_state(objects))
         [] threads[t].pc = "return_state" ->
              proceed(t, [threads[t] EXCEPT !.pc = "lead_data",
                                            !.state = objects.entry], objects)
         [] threads[t].pc = "lead_data" ->
              proceed(t, [threads[t] EXCEPT
                            !.pc = "validate",
                            !.lead_data =
                                objects.states[threads[t].state].lead_data],
                      objects)
    /\ UNCHANGED <<conversations, inbound, request, processing_result,
                   response, reply>>

\* process_user_input, lines 165-198: the validators and extractors, the
\* appends to validated_fields and the filling of extracted_data; a raise of
\* validate_budget ends the call in the except clause of get_ai_response
validate(t) ==
    /\ threads[t].pc = "validate"
    /\ \E processed \in
          {process_results(
              [p \in {From} |->
                  [new_conversation_state EXCEPT
                     !.lead_data = objects.leads[threads[t].lead_data]]],
              From, threads[t].user_message,
              validation[threads[t].user_message])} :
          IF processed.result.kind = "raised"
          THEN proceed(t, [threads[t] EXCEPT !.pc = "done",
                                             !.reply = FALLBACK_MESSAGE],
                       [objects EXCEPT
                          !.leads[threads[t].lead_data].validated_fields =
                             processed.states[From].lead_data.validated_fields])
          ELSE proceed(t, [threads[t] EXCEPT
                             !.pc = "merge",
                             !.extracted_data = processed.result.extracted_data,
                             !.pending =
                                SelectSeq(extraction_order,
                                    LAMBDA key :
                                      key \in DOMAIN processed.result.extracted_data)],
                       [objects EXCEPT
                          !.leads[threads[t].lead_data].validated_fields =
                             processed.result.lead_data.validated_fields])
    /\ UNCHANGED <<conversations, inbound, request, processing_result,
                   response, reply>>

\* process_user_input, lines 202-205: one turn of the loop, or its end
merge(t) ==
    /\ threads[t].pc = "merge"
    /\ IF threads[t].pending = << >>
       THEN proceed(t, [threads[t] EXCEPT !.pc = "score"], objects)
       ELSE LET key == Head(threads[t].pending)
                value == threads[t].extracted_data[key]
            IN  proceed(t, [threads[t] EXCEPT !.pending = Tail(@)],
                        IF truthy(key, value)
                        THEN [objects EXCEPT
                                !.leads[threads[t].lead_data] =
                                    set_key(@, key, value)]
                        ELSE objects)
    /\ UNCHANGED <<conversations, inbound, request, processing_result,
                   response, reply>>

\* process_user_input, lines 207-213
calculate_score(t) ==
    /\ threads[t].pc = "score"
    /\ proceed(t, [threads[t] EXCEPT
                     !.pc = "save_user",
                     !.lead_score =
                        calculate_lead_score(objects.leads[threads[t].lead_data])],
               objects)
    /\ UNCHANGED <<conversations, inbound, request, processing_result,
                   response, reply>>

\* save_message: the membership test, the creation of the list, the append
save(t, role, content, test, create, append, next) ==
    /\ threads[t].pc \in {test, create, append}
    /\ CASE threads[t].pc = test ->
              /\ proceed(t, [threads[t] EXCEPT
                               !.pc = IF From \in DOMAIN conversations
                                      THEN append ELSE create], objects)
              /\ conversations' = conversations
         [] threads[t].pc = create ->
              /\ proceed(t, [threads[t] EXCEPT !.pc = append], objects)
              /\ conversations' = [p \in {From} |-> << >>]
         [] threads[t].pc = append ->
              /\ proceed(t, [threads[t] EXCEPT !.pc = next], objects)
              /\ conversations' =
                    [conversations EXCEPT ![From] =
                        Append(@, [role |-> role, content |-> content])]
    /\ UNCHANGED <<inbound, request, processing_result, response, reply>>

\* get_ai_response, line 258
save_user(t) ==
    save(t, "user", threads[t].user_message,
         "save_user", "create_user", "append_user", "state")

\* get_ai_response, lines 261-264: the state is fetched again, message_count
\* is read and written back increased, lead_data and lead_score are assigned
store_result(t) ==
    /\ threads[t].pc \in {"state", "read_count", "write_count",
                          "set_lead_data", "set_lead_score"}
    /\ CASE threads[t].pc = "state" ->
              proceed(t, [threads[t] EXCEPT !.pc = "read_count",
                                            !.state = objects.entry], objects)
         [] threads[t].pc = "read_count" ->
              proceed(t, [threads[t] EXCEPT
                            !.pc = "write_count",
                            !.message_count =
                                objects.states[threads[t].state].message_count],
                      objects)
         [] threads[t].pc = "write_count" ->
              proceed(t, [threads[t] EXCEPT !.pc = "set_lead_data"],
                      [objects EXCEPT
                         !.states[threads[t].state].message_count =
                            threads[t].message_count + 1])
         [] threads[t].pc = "set_lead_data" ->
              proceed(t, [threads[t] EXCEPT !.pc = "set_lead_score"],
                      [objects EXCEPT
                         !.states[threads[t].state].lead_data =
                            threads[t].lead_data])
         [] threads[t].pc = "set_lead_score" ->
              proceed(t, [threads[t] EXCEPT !.pc = "if_scheduling"],
                      [objects EXCEPT
                         !.states[threads[t].state].lead_score =
                            threads[t].lead_score])
    /\ UNCHANGED <<conversations, inbound, request, processing_result,
                   response, reply>>

\* get_ai_response, lines 267-271: each test reads the stored score
transition(t) ==
    /\ threads[t].pc \in {"if_scheduling", "set_scheduling", "elif_qualifying",
                          "set_qualifying"}
    /\ CASE threads[t].pc = "if_scheduling" ->
              proceed(t, [threads[t] EXCEPT
                            !.pc = IF objects.states[threads[t].state].lead_score
                                        >= SCHEDULING_SCORE
                                   THEN "set_scheduling"
                                   ELSE "elif_qualifying"], objects)
         [] threads[t].pc = "set_scheduling" ->
              proceed(t, [threads[t] EXCEPT !.pc = "update"],
                      [objects EXCEPT
                         !.states[threads[t].state].stage = "scheduling"])
         [] threads[t].pc = "elif_qualifying" ->
              proceed(t, [threads[t] EXCEPT
                            !.pc = IF objects.states[threads[t].state].lead_score
                                        >= QUALIFYING_SCORE
                                   THEN "set_qualifying"
                                   ELSE "update"], objects)
         [] threads[t].pc = "set_qualifying" ->
              proceed(t, [threads[t] EXCEPT !.pc = "update"],
                      [objects EXCEPT
                         !.states[threads[t].state].stage = "qualifying"])
    /\ UNCHANGED <<conversations, inbound, request, processing_result,
                   response, reply>>

\* get_ai_response, line 273: update_conversation_state fetches the stored
\* state, copies the keys of the given dict into it and assigns it to the
\* store entry
update(t) ==
    /\ threads[t].pc \in {"update", "copy_keys", "assign_entry"}
    /\ CASE threads[t].pc = "update" ->
              proceed(t, [threads[t] EXCEPT !.pc = "copy_keys",
                                            !.target = objects.entry], objects)
         [] threads[t].pc = "copy_keys" ->
              proceed(t, [threads[t] EXCEPT !.pc = "assign_entry"],
                      [objects EXCEPT
                         !.states[threads[t].target] =
                            objects.states[threads[t].state]])
         [] threads[t].pc = "assign_entry" ->
              proceed(t, [threads[t] EXCEPT !.pc = "generate"],
                      [objects EXCEPT !.entry = threads[t].target])
    /\ UNCHANGED <<conversations, inbound, request, processing_result,
                   response, reply>>

\* get_ai_response, lines 276-301 and 313-315: the chat-completion call
generate(t, llm_response) ==
    /\ threads[t].pc = "generate"
    /\ IF llm_response = None
       THEN proceed(t, [threads[t] EXCEPT !.pc = "done",
                                          !.reply = FALLBACK_MESSAGE], objects)
       ELSE proceed(t, [threads[t] EXCEPT
                          !.pc = "save_assistant",
                          !.reply = clean_ai_message(llm_response[1])],
                    objects)
    /\ UNCHANGED <<conversations, inbound, request, processing_result,
                   response, reply>>

\* get_ai_response, lines 304-311
save_assistant(t) ==
    save(t, "assistant", threads[t].reply,
         "save_assistant", "create_assistant", "append_assistant", "done")

NextInterleaved ==
    \E t \in Workers :
        \/ \E user_message \in InterleavedMessages :
                receive(t, user_message)
        \/ get_state(t)
        \/ validate(t)
        \/ merge(t)
        \/ calculate_score(t)
        \/ save_user(t)
        \/ store_result(t)
        \/ transition(t)
        \/ update(t)
        \/ \E llm_response \in LLMResponses : generate(t, llm_response)
        \/ save_assistant(t)

SpecInterleaved == Init /\ [][NextInterleaved]_vars

-----------------------------------------------------------------------------
(* The scoring policy on its own: every presence pattern of the six fields *)

SampleValue ==
    [name |-> Some(<<"A", "l", "i">>),
     phone |-> Some(<<"+", "9", "7", "1", "5", "0", "1", "2", "3", "4", "5", "6", "7">>),
     email |-> Some(<<"a", "@", "b", ".", "c", "o">>),
     budget |-> Some([type |-> "fixed", value |-> 500000]),
     location_preference |-> Some(<<"J", "B", "R">>),
     property_type |-> Some(<<"V", "i", "l", "l", "a">>)]

\* the profile holding exactly the fields of the given set
ProfileWith(present) ==
    LET slot(key) == IF key \in present THEN SampleValue[key] ELSE None
    IN  [name |-> slot("name"),
         phone |-> slot("phone"),
         email |-> slot("email"),
         budget |-> slot("budget"),
         location_preference |-> slot("location_preference"),
         property_type |-> slot("property_type"),
         validated_fields |-> << >>]

InitScore ==
    /\ conversation_states = [p \in {} |-> new_conversation_state]
    /\ conversations = [p \in {} |-> << >>]
    /\ inbound = [p \in Phones |-> 0]
    /\ \E present \in SUBSET FieldNames :
            request = [kind |-> "score", lead_data |-> ProfileWith(present)]
    /\ processing_result = [kind |-> "none"]
    /\ response = "none"
    /\ reply = << >>
    /\ objects = no_objects
    /\ threads = [t \in Workers |-> idle]

\* calculate_lead_score(lead_data) called on the profile
score_profile ==
    /\ request.kind = "score"
    /\ processing_result.kind = "none"
    /\ processing_result' =
          [kind |-> "scored",
           lead_score |-> calculate_lead_score(request.lead_data)]
    /\ UNCHANGED <<conversation_states, conversations, inbound, request,
                   response, reply, objects, threads>>

NextScore == score_profile

SpecScore == InitScore /\ [][NextScore]_vars

-----------------------------------------------------------------------------
(* The budget and name validators on their own *)

\* the numeric prefix of a single amount
BudgetNumbers ==
    { <<"5">>,
      <<"5", "0">>,
      <<"5", "0", "0">>,
      <<"1", ".", "5">>,
      <<"2">>,
      <<"5", "0", "0", "0">>,
      <<"2", "0", "0", "0", "0">>,
      <<"9", "9", "9", "9">>,
      <<"2", "0", "0", "0">> }

\* the unit word that follows the prefix
BudgetUnits ==
    { << >>, <<"k">>, <<"M">>, <<" ", "m", "i", "l", "l", "i", "o", "n">>,
      <<" ", "l", "a", "k", "h">> }

\* the texts on either side of a range separator
RangeParts ==
    { <<"5", "0", "0", "k">>,
      <<"1", "M">>,
      <<"5", "0", "0", "0">>,
      <<"2", "0", "0", "0", "0">>,
      <<"2", "0", "0", "0", "M">>,
      <<"5", "0", " ", "l", "a", "k", "h">>,
      <<"a", "b", "c">> }

RangeSeparators == { <<"-">>, <<" ", "t", "o", " ">> }

\* the texts given to validate_name
NameTexts ==
    { <<"j", "o", "h", "n", " ", "o", "'", "b", "r", "i", "e", "n">>,
      <<"a", "l", "i">>,
      <<"m", "a", "r", "y", "-", "j", "a", "n", "e", " ", "s", "m", "i", "t", "h">>,
      <<"x">>,
      <<"J", "o", "h", "n", "1", "2", "3", "4", "5", "6">>,
      <<" ", "a", "l", " ", " ", "h", "a", "s", "s", "a", "n", " ">>,
      <<"O", "'", "N", "E", "I", "L">>,
      <<"j", "e", "a", "n", "-", "l", "u", "c">>,
      <<"h", "i", "!">>,
      <<"d", "r", ".", " ", "w", "h", "o">> }

InitValidators ==
    /\ conversation_states = [p \in {} |-> new_conversation_state]
    /\ conversations = [p \in {} |-> << >>]
    /\ inbound = [p \in Phones |-> 0]
    /\ \/ \E number \in BudgetNumbers, unit \in BudgetUnits :
            request = [kind |-> "amount", number |-> number, unit |-> unit,
                       budget_input |-> number \o unit]
       \/ \E low \in RangeParts, high \in RangeParts,
             separator \in RangeSeparators :
            request = [kind |-> "range", parts |-> <<low, high>>,
                       budget_input |-> low \o separator \o high]
       \/ \E name_input \in NameTexts :
            request = [kind |-> "name", name_input |-> name_input]
    /\ processing_result = [kind |-> "none"]
    /\ response = "none"
    /\ reply = << >>
    /\ objects = no_objects
    /\ threads = [t \in Workers |-> idle]

\* validate_budget(budget_input) called on the text
call_validate_budget ==
    /\ request.kind \in {"amount", "range"}
    /\ processing_result.kind = "none"
    /\ processing_result' =
          [kind |-> "budget_result",
           result |-> validate_budget(request.budget_input)]
    /\ UNCHANGED <<conversation_states, conversations, inbound, request,
                   response, reply, objects, threads>>

\* validate_name(name_input) called on the text
call_validate_name ==
    /\ request.kind = "name"
    /\ processing_result.kind = "none"
    /\ processing_result' =
          [kind |-> "name_result",
           result |-> validate_name(request.name_input)]
    /\ UNCHANGED <<conversation_states, conversations, inbound, request,
                   response, reply, objects, threads>>

NextValidators ==
    \/ call_validate_budget
    \/ call_validate_name

SpecValidators == InitValidators /\ [][NextValidators]_vars

-----------------------------------------------------------------------------
(* Properties *)

\* the state get_conversation_state would hand out for the phone number
StateOf(phone_number) ==
    IF phone_number \in DOMAIN conversation_states
    THEN conversation_states[phone_number]
    ELSE new_conversation_state

\* the step handles a webhook call for the phone number
Handled(phone_number) ==
    inbound'[phone_number] = inbound[phone_number] + 1

\* the step merged an inbound message into the phone number's profile
Merged(phone_number) ==
    /\ Handled(phone_number)
    /\ processing_result'.kind = "returned"

\* C1: whenever an inbound message has been merged and the score recomputed,
\* the new stage is scheduling if the new score is at least 80, qualifying if
\* it is at least 40, and otherwise the stage the conversation had before.
StageFollowsScoreRule ==
    [][\A p \in Phones :
          Merged(p) =>
            StateOf(p)'.stage =
               IF StateOf(p)'.lead_score >= 80 THEN "scheduling"
               ELSE IF StateOf(p)'.lead_score >= 40 THEN "qualifying"
               ELSE StateOf(p).stage]_vars

\* a message was merged at a score of exactly 40 and the stage is qualifying,
\* and another was merged below 40 leaving a conversation in greeting
StageRuleApplied ==
    /\ \E p \in Phones :
          /\ StateOf(p).message_count >= 1
          /\ StateOf(p).lead_score = 40
          /\ StateOf(p).stage = "qualifying"
    /\ \E p \in Phones :
          /\ StateOf(p).message_count >= 1
          /\ StateOf(p).lead_score < 40
          /\ StateOf(p).stage = "greeting"


\* C2: once a conversation's stage has left greeting, no later step (a
\* valid or invalid message, or one whose processing or response generation
\* fails) makes it greeting again.
StageNeverBackToGreeting ==
    [][\A p \in Phones :
          StateOf(p).stage # "greeting" => StateOf(p)'.stage # "greeting"]_vars

\* a conversation that left greeting has since handled a message with no
\* valid field, one whose processing raised, and is still not in greeting
LeftGreetingAndContinued ==
    \E p \in Phones :
        /\ StateOf(p).stage = "qualifying"
        /\ inbound[p] >= 2
        /\ request.kind = "message"
        /\ request.phone_number = p
        /\ request.user_message \in {<<"h", "i", "!">>,
                                     <<"5", "0", "0", "k", "-", "1", "M">>}

StageRank(stage) ==
    CASE stage = "greeting" -> 0
      [] stage = "qualifying" -> 1
      [] stage = "scheduling" -> 2
      [] stage = "completed" -> 3

\* C3: handling an inbound message never moves the stage to an earlier one in
\* the order greeting < qualifying < scheduling < completed; in particular a
\* completed conversation stays completed.
StageNeverRegresses ==
    [][\A p \in Phones :
          Handled(p) =>
            StageRank(StateOf(p)'.stage) >= StageRank(StateOf(p).stage)]_vars

\* C4: the stored lead score of a conversation never decreases.
ScoreNeverDecreases ==
    [][\A p \in Phones :
          StateOf(p)'.lead_score >= StateOf(p).lead_score]_vars

\* a conversation whose score rose over at least two merged messages
ScoreGrewOverMessages ==
    \E p \in Phones :
        /\ StateOf(p).message_count >= 2
        /\ StateOf(p).lead_score >= 85

\* C5: message_count equals the number of inbound messages handed to the
\* entry point for the conversation.
MessageCountCountsInbound ==
    \A p \in Phones : StateOf(p).message_count = inbound[p]

\* C6: process_user_input completes normally for every user text; it never
\* raises.
ProcessingNeverRaises ==
    processing_result.kind # "raised"

\* the validator or extractor of the field rejects the text or finds nothing
NoCandidate(user_message, key) ==
    CASE key = "name" ->
            ~( /\ Len(split_words(user_message)) <= 4
               /\ Len(user_message) < 50
               /\ validation[user_message].name_result.is_valid )
      [] key = "phone" -> ~validation[user_message].phone_result.is_valid
      [] key = "email" -> ~validation[user_message].email_result.is_valid
      [] key = "budget" -> ~validation[user_message].budget_result.is_valid
      [] key = "location_preference" ->
            validation[user_message].location = None
      [] key = "property_type" ->
            validation[user_message].property_type = None

\* C7: a message that yields no valid candidate for a field leaves the
\* field's value as it was, and no step empties a non-empty field.
FailedFieldsAreKept ==
    [][\A p \in Phones : \A key \in FieldNames :
          /\ (Handled(p) /\ NoCandidate(request'.user_message, key))
                => StateOf(p)'.lead_data[key] = StateOf(p).lead_data[key]
          /\ truthy(key, StateOf(p).lead_data[key])
                => truthy(key, StateOf(p)'.lead_data[key])]_vars

\* the message handled last had no valid candidate for any field, and the
\* conversation still holds the phone and budget collected before
FieldsKeptAfterInvalidMessage ==
    /\ request.kind = "message"
    /\ request.user_message = <<"h", "i", "!">>
    /\ processing_result.kind = "returned"
    /\ truthy("phone", StateOf(request.phone_number).lead_data.phone)
    /\ truthy("budget", StateOf(request.phone_number).lead_data.budget)

\* the candidate the validator or extractor of the field gives for the text
CandidateOf(user_message, key) ==
    CASE key = "name" -> validation[user_message].name_result.value
      [] key = "phone" -> validation[user_message].phone_result.value
      [] key = "email" -> validation[user_message].email_result.value
      [] key = "budget" -> validation[user_message].budget_result.value
      [] key = "location_preference" -> validation[user_message].location
      [] key = "property_type" -> validation[user_message].property_type

\* C8: for each of the six fields, name included, a message with a valid
\* non-empty candidate for the field leaves the field equal to that
\* candidate, whatever the field held before.
ValidCandidateIsStored ==
    [][\A p \in Phones : \A key \in FieldNames :
          (Handled(p) /\ ~NoCandidate(request'.user_message, key))
            => StateOf(p)'.lead_data[key]
                  = CandidateOf(request'.user_message, key)]_vars

\* C9: handling the same valid message a second time in a row leaves the
\* whole profile, validated field names included, and the score as they were
\* after the first time.
SameMessageTwiceIsIdempotent ==
    [][\A p \in Phones :
          ( /\ Handled(p)
            /\ request.kind = "message"
            /\ request.phone_number = p
            /\ request'.user_message = request.user_message
            /\ processing_result.kind = "returned"
            /\ processing_result'.kind = "returned" )
          => /\ StateOf(p)'.lead_data = StateOf(p).lead_data
             /\ StateOf(p)'.lead_score = StateOf(p).lead_score]_vars

\* the saved messages of the phone number
HistoryOf(phone_number) ==
    IF phone_number \in DOMAIN conversations
    THEN conversations[phone_number]
    ELSE << >>

\* C11: handling an inbound message for one conversation identity leaves the
\* stage, profile, score, message_count and history of every other identity
\* unchanged, however the messages of the two identities alternate.
ConversationsAreIndependent ==
    [][\A p \in Phones : \A q \in Phones \ {p} :
          Handled(p) => /\ StateOf(q)' = StateOf(q)
                        /\ HistoryOf(q)' = HistoryOf(q)]_vars

\* two identities have alternated: the one handled last merged a message
\* after the other had merged one, and the other still holds what it had
OtherConversationUntouched ==
    \E p \in Phones : \E q \in Phones \ {p} :
        /\ request.kind = "message"
        /\ request.phone_number = p
        /\ inbound[p] >= 2
        /\ StateOf(p).lead_score >= 40
        /\ StateOf(q).message_count = 1
        /\ StateOf(q).lead_score = 10
        /\ Len(HistoryOf(q)) >= 1

\* C13: when the chat-completion call fails, the entry point returns the
\* fixed apology; the profile, score, stage and message_count written for
\* the message are kept; the history gains the user's message and no
\* assistant message.
GeneratorFailureKeepsUpdates ==
    [][\A p \in Phones :
          (Handled(p) /\ response' = "raised")
            => /\ reply' = FALLBACK_MESSAGE
               /\ processing_result'.kind = "returned"
               /\ StateOf(p)'.lead_data = processing_result'.lead_data
               /\ StateOf(p)'.lead_score = processing_result'.lead_score
               /\ StateOf(p)'.stage =
                     next_stage(StateOf(p).stage, processing_result'.lead_score)
               /\ StateOf(p)'.message_count = StateOf(p).message_count + 1
               /\ HistoryOf(p)' =
                     Append(HistoryOf(p),
                            [role |-> "user",
                             content |-> request'.user_message])]_vars

\* the chat-completion call failed for a message that brought the phone and
\* the budget: the score, the stage and the count stand, and the history
\* ends with the user's message
UpdatesKeptAfterGeneratorFailure ==
    /\ response = "raised"
    /\ reply = FALLBACK_MESSAGE
    /\ request.user_message = <<"0", "5", "0", "1", "2", "3", "4", "5", "6", "7">>
    /\ StateOf(request.phone_number).lead_score = 45
    /\ StateOf(request.phone_number).stage = "qualifying"
    /\ StateOf(request.phone_number).message_count = 1
    /\ HistoryOf(request.phone_number)
          = <<[role |-> "user", content |-> request.user_message]>>

\* the integer amount validate_budget gives for a text taken on its own
AmountOf(text) == validate_budget(text).value[1].value

\* C14: a budget text that a range separator splits into two parts, each
\* valid as a single amount, gives a valid range whose min and max are the
\* amounts of the two parts; 500k-1M gives min 500000 and max 1000000.
RangeOfValidPartsIsReturned ==
    ( /\ processing_result.kind = "budget_result"
      /\ request.kind = "range"
      /\ validate_budget(request.parts[1]).is_valid
      /\ validate_budget(request.parts[2]).is_valid )
    => LET result == processing_result.result
       IN  /\ ~result.raised
           /\ result.is_valid
           /\ result.value[1].type = "range"
           /\ result.value[1].min = AmountOf(request.parts[1])
           /\ result.value[1].max = AmountOf(request.parts[2])
           /\ request.budget_input = <<"5", "0", "0", "k", "-", "1", "M">>
                 => /\ result.value[1].min = 500000
                    /\ result.value[1].max = 1000000

\* the multiplier the unit word stands for
UnitMultiplier(unit) ==
    CASE unit = << >> -> 1
      [] unit = <<"k">> -> 1000
      [] unit = <<"M">> -> 1000000
      [] unit = <<" ", "m", "i", "l", "l", "i", "o", "n">> -> 1000000
      [] unit = <<" ", "l", "a", "k", "h">> -> 100000

\* C15: a single amount is its numeric prefix times the multiplier of its
\* unit word before the bounds check: LAKH multiplies by 100,000 (50 lakh
\* is 5,000,000), as K multiplies by 1,000 and M or MILLION by 1,000,000.
LakhMultipliesByHundredThousand ==
    ( /\ processing_result.kind = "budget_result"
      /\ request.kind = "amount" )
    => LET result == processing_result.result
           amount == int_times(python_float(request.number),
                               UnitMultiplier(request.unit))
       IN  IF amount < 10000 \/ amount > 1000000000
           THEN ~result.is_valid
           ELSE /\ result.is_valid
                /\ result.value = Some([type |-> "fixed", value |-> amount])

\* the amount of the text taken on its own is outside 10,000..1,000,000,000
OutOfBounds(text) ==
    validate_budget(text).message
        \in {"Budget seems too low", "Budget seems too high"}

\* C16: a two-part range text one of whose parts has an amount below 10,000
\* or above 1,000,000,000 is rejected, and every amount of an accepted
\* budget value lies within 10,000..1,000,000,000.
RangeBoundsApplyToEachPart ==
    processing_result.kind = "budget_result"
    => LET result == processing_result.result
       IN  /\ ( /\ request.kind = "range"
                /\ \E i \in 1..2 : OutOfBounds(request.parts[i]) )
              => ~result.is_valid
           /\ result.is_valid
              => IF result.value[1].type = "fixed"
                 THEN result.value[1].value \in 10000..1000000000
                 ELSE /\ result.value[1].min \in 10000..1000000000
                      /\ result.value[1].max \in 10000..1000000000

\* str.title of a token: a letter is upper-cased at the start and after a
\* character that is not a letter, and lower-cased elsewhere
title(word) ==
    [i \in 1..Len(word) |->
        IF i = 1 \/ ~isalpha(word[i - 1])
        THEN upper_char(word[i]) ELSE lower_char(word[i])]

\* C17: a valid name comes back with each whitespace-separated token
\* title-cased, the letter after an apostrophe or hyphen capitalised too:
\* john o'brien yields John O'Brien.
NameIsTitleCased ==
    ( /\ processing_result.kind = "name_result"
      /\ processing_result.result.is_valid )
    => LET words == split_words(strip(request.name_input))
           titled == join([k \in 1..Len(words) |-> title(words[k])], <<" ">>)
       IN  /\ processing_result.result.value = Some(titled)
           /\ request.name_input = <<"j", "o", "h", "n", " ", "o", "'", "b", "r", "i", "e", "n">>
                 => processing_result.result.value = Some(<<"J", "o", "h", "n", " ", "O", "'", "B", "r", "i", "e", "n">>)

\* the names recorded in a list of validated fields
NamesIn(validated_fields) ==
    {validated_fields[i] : i \in 1..Len(validated_fields)}

\* the fields whose validator accepted the text when the conversation was
\* in the given state
PassedValidation(state, user_message) ==
    {key \in {"phone", "email", "budget"} : ~NoCandidate(user_message, key)}
    \cup (IF name_is_attempted(state.lead_data, user_message)
             /\ validation[user_message].name_result.is_valid
          THEN {"name"} ELSE {})

\* C18: validated_fields is a set of the field names validated at least
\* once: after every handled message each name occurs in it at most once,
\* and it holds a name exactly when the name was in it before or the field
\* passed its validator in this message.
ValidatedFieldsIsASet ==
    [][\A p \in Phones :
          Handled(p) =>
            LET before == StateOf(p).lead_data.validated_fields
                after == StateOf(p)'.lead_data.validated_fields
            IN  /\ Cardinality(NamesIn(after)) = Len(after)
                /\ NamesIn(after) =
                      NamesIn(before)
                        \cup PassedValidation(StateOf(p), request'.user_message)]_vars

\* C19: with messages handled one after another and no other write to the
\* stage, the stored lead_score is the scoring policy applied to the stored
\* profile, and the stage is scheduling from 80, qualifying from 40 to 79
\* and greeting below 40, also after a message whose processing or whose
\* response generation failed.
ScoreAndStageFollowProfile ==
    \A p \in Phones :
        LET state == StateOf(p)
        IN  /\ state.lead_score = calculate_lead_score(state.lead_data)
            /\ state.stage =
                  IF state.lead_score >= 80 THEN "scheduling"
                  ELSE IF state.lead_score >= 40 THEN "qualifying"
                  ELSE "greeting"

\* a conversation whose first response generation failed (its history
\* starts with two user messages) and whose last message made processing
\* raise stands at score 85 in scheduling
ConsistentAfterBothFailures ==
    /\ request.kind = "message"
    /\ processing_result.kind = "raised"
    /\ StateOf(request.phone_number).lead_score = 85
    /\ StateOf(request.phone_number).stage = "scheduling"
    /\ Len(HistoryOf(request.phone_number)) >= 2
    /\ HistoryOf(request.phone_number)[1].role = "user"
    /\ HistoryOf(request.phone_number)[2].role = "user"

\* C20: every field name recorded in validated_fields refers to a field
\* that holds a value in the profile, also when the message that validated
\* it was aborted by a later validator.
ValidatedFieldsHoldValues ==
    \A p \in Phones :
        \A key \in NamesIn(StateOf(p).lead_data.validated_fields) :
            truthy(key, StateOf(p).lead_data[key])

\* both calls have returned
BothReturned == \A t \in Workers : threads[t].pc = "done"

\* a field one of the calls validly extracted is empty in the stored profile
FieldLost ==
    \E t \in Workers : \E key \in DOMAIN threads[t].extracted_data :
        ~truthy(key, StateOf(From).lead_data[key])

\* C12: when two messages of one conversation are handled with their steps
\* interleaved, a field that one of them validly extracted can be absent
\* from the final profile (LostUpdateReached); this happens only when both
\* calls found the conversation missing, so that each created a state of
\* its own.
FieldLostOnlyByInterleaving ==
    (BothReturned /\ FieldLost) => \A t \in Workers : threads[t].absent

\* both calls have returned, one extracted the name and the other the phone
\* and the budget, and the stored profile has no name
LostUpdateReached ==
    /\ BothReturned
    /\ \E t \in Workers : "name" \in DOMAIN threads[t].extracted_data
    /\ \E t \in Workers : "phone" \in DOMAIN threads[t].extracted_data
    /\ ~truthy("name", StateOf(From).lead_data.name)
    /\ truthy("phone", StateOf(From).lead_data.phone)

Weight ==
    [name |-> 10, phone |-> 25, email |-> 15, budget |-> 20,
     location_preference |-> 15, property_type |-> 15]

RECURSIVE WeightSum(_)
WeightSum(keys) ==
    IF keys = {} THEN 0
    ELSE LET key == CHOOSE k \in keys : TRUE
         IN  Weight[key] + WeightSum(keys \ {key})

PresentFields(lead_data) ==
    {key \in FieldNames : lead_data[key] # None}

\* C10: for each of the 64 presence patterns the score is the sum of the
\* weights of the present fields capped at 100: an integer in 0..100, 0 for
\* the empty profile, 25 for phone only, 100 for all six fields.
ScoreIsCappedWeightSum ==
    processing_result.kind = "scored" =>
        LET present == PresentFields(request.lead_data)
            total == WeightSum(present)
            score == processing_result.lead_score
        IN  /\ score = IF total < 100 THEN total ELSE 100
            /\ score \in 0..100
            /\ present = {} => score = 0
            /\ present = {"phone"} => score = 25
            /\ present = FieldNames => score = 100

\* the scored profile holds the phone only and the score is 25
PhoneOnlyScored ==
    /\ processing_result.kind = "scored"
    /\ PresentFields(request.lead_data) = {"phone"}
    /\ processing_result.lead_score = 25

====
